---------------------------- MODULE Spec2Model ----------------------------
(***************************************************************************)
(* tmuxp.workspacebuilder: WorkspaceBuilder (build a tmux session from a   *)
(* configuration dict) and freeze (capture a live session as a dict).      *)
(*                                                                         *)
(* Python dicts are functions with string domains, so that "key in dict"   *)
(* is  key \in DOMAIN dict.  Python strings are TLA+ strings (TLC          *)
(* evaluates \o, Len and SubSeq on them).  The tmux server, which the      *)
(* builder drives through Session/Window/Pane handles, is the variable     *)
(* server; every call the builder issues is appended to calls.             *)
(***************************************************************************)
EXTENDS Integers, Sequences, FiniteSets, TLC

VARIABLES
    sconf,     \* the configuration dict (WorkspaceBuilder.sconf / freeze's result)
    server,    \* the tmux server: sessions, their windows and panes
    bld,       \* WorkspaceBuilder attributes and the locals of build() and its generators
    pc,        \* the statement the program is at
    status,    \* how the call ended: "" while running, "ok", or the exception raised
    calls,     \* the tmux calls issued so far, oldest first
    env,       \* what the caller and the host decide: faults allowed, session supplied
    frozen     \* the session freeze() read, as it was when it was read

vars == <<sconf, server, bld, pc, status, calls, env, frozen>>

---------------------------------------------------------------------------
(* Bounds of the model. *)

\* total number of panes in a configuration handed to build
MaxPanes == 3
\* total number of panes in a live session handed to freeze
MaxLivePanes == 2

(* Values of the host and of the source. *)

\* the index move_window displaces the default window to
HighIndex == 99
\* tmux's base-index: the index of the window a new session starts with
BaseIndex == 1
\* tmux's pane-base-index, as show_window_option reports it
PaneBaseIndex == 0

None == 0              \* Python None, for window and pane handles (ids start at 1)
NoIndex == -1          \* window_index='' : no index given to new_window
NoDir == ""            \* start_directory=None
NoName == ""           \* window_name=None, session=None
DefaultPath == "~"     \* where tmux starts a pane that is given no directory
DefaultShell == "zsh"  \* what a pane runs until it is sent keys
EmptyList == "[]"      \* the empty list freeze appends to shell_command

EmptyDict == [x \in {} |-> TRUE]
Has(d, k) == k \in DOMAIN d

RECURSIVE SumSeq(_)
SumSeq(s) == IF s = <<>> THEN 0 ELSE Head(s) + SumSeq(Tail(s))

\* str.startswith and str.endswith
StartsWith(s, pre) == Len(s) >= Len(pre) /\ SubSeq(s, 1, Len(pre)) = pre
EndsWith(s, suf) == Len(s) >= Len(suf) /\ SubSeq(s, Len(s) - Len(suf) + 1, Len(s)) = suf

---------------------------------------------------------------------------
(* The configurations build is given.  A configuration is a dict with      *)
(* session_name, windows and optionally before_script; a window a dict     *)
(* with panes and optionally window_name, window_index, start_directory,   *)
(* layout, focus, options; a pane a dict with shell_command and optionally *)
(* start_directory, focus.  The sets below vary these keys family by       *)
(* family over every window/pane shape of at most MaxPanes panes.          *)

Opt(k, vals) == {EmptyDict} \cup {k :> v : v \in vals}
Combine(A, B) == {a @@ b : a \in A, b \in B}

\* the number of panes of each window, for every session of at most `total` panes
Shapes(total, maxp) ==
    {s \in UNION {[1..n -> 1..maxp] : n \in 1..total} : SumSeq(s) <= total}

Offset(s, i) == SumSeq(SubSeq(s, 1, i - 1))

\* the windows of shape s, window i with the keys wa[i] and pane j (counted over
\* the configuration) with the keys pa[j]
WindowList(s, wa, pa) ==
    [i \in 1..Len(s) |-> wa[i] @@ [panes |-> [k \in 1..s[i] |-> pa[Offset(s, i) + k]]]]

PlainPane == [shell_command |-> <<>>]

\* focus and layout, on windows and panes of every shape
FocusWindowKeys == Combine(Opt("focus", {TRUE}), Opt("layout", {"tiled"}))
FocusPaneKeys == Combine({PlainPane}, Opt("focus", {TRUE}))

\* start_directory, on windows and panes of every shape
DirectoryWindowKeys == Opt("start_directory", {"/w"})
DirectoryPaneKeys == Combine({PlainPane}, Opt("start_directory", {"/p"}))

\* shell_command, on panes of every shape
CommandPaneKeys == {[shell_command |-> c] : c \in {<<>>, <<"c1", "c2">>}}

\* window_name and options, on windows of one pane
NamedWindowKeys ==
    Combine(Opt("window_name", {"a", "b"}),
            Opt("options", {<<[key |-> "k1", val |-> "v1"], [key |-> "k2", val |-> "v2"]>>}))

\* window_index, on windows of one pane
IndexedWindowKeys == Opt("window_index", {BaseIndex, BaseIndex + 1, HighIndex})

\* two windows that use every key at once, for the runs where the host varies
FullWindows ==
    << [window_name |-> "a", start_directory |-> "/w", layout |-> "tiled",
        options |-> <<[key |-> "k1", val |-> "v1"]>>,
        panes |-> << [shell_command |-> <<"c1">>, focus |-> TRUE],
                     [shell_command |-> <<>>, start_directory |-> "/p"] >>],
       [window_name |-> "b", focus |-> TRUE, window_index |-> BaseIndex + 2,
        panes |-> << [shell_command |-> <<"c1", "c2">>] >>] >>

SessionName == "s"

Config(ws) == [session_name |-> SessionName, windows |-> ws]

HostConfigs ==
    {Config(FullWindows) @@ b : b \in Opt("before_script", {"./bootstrap.sh"})}
    \cup {Config(<<[panes |-> <<PlainPane>>]>>)}

---------------------------------------------------------------------------
(* The tmux server behind the Session, Window and Pane handles.  A server  *)
(* is [sessions, next_id]; sessions maps a session name to [windows], a    *)
(* function from window id to window; a window holds its panes in pane     *)
(* order, so that a pane's index is PaneBaseIndex plus its position - 1.   *)

NewPane(pid, sd) ==
    [pane_id |-> pid, start_directory |-> sd, keys |-> <<>>, pane_active |-> TRUE,
     pane_current_path |-> IF sd = NoDir THEN DefaultPath ELSE sd,
     pane_current_command |-> DefaultShell]

NewWindowRec(index, name, sd, pid, active) ==
    [window_index |-> index,
     window_name |-> IF name = NoName THEN DefaultShell ELSE name,
     start_directory |-> sd, window_layout |-> "", options |-> <<>>,
     window_active |-> active, panes |-> <<NewPane(pid, sd)>>]

EmptyServer == [sessions |-> EmptyDict, next_id |-> 1]

MxHasSession(srv, name) == name \in DOMAIN srv.sessions

Windows(srv, name) == srv.sessions[name].windows

UsedIndexes(wins) == {wins[w].window_index : w \in DOMAIN wins}

\* the index tmux gives a window created without one: the lowest free index
FreeIndex(wins) ==
    CHOOSE n \in BaseIndex..(BaseIndex + Cardinality(DOMAIN wins)) :
        /\ n \notin UsedIndexes(wins)
        /\ \A m \in BaseIndex..(n - 1) : m \in UsedIndexes(wins)

\* Session.attached_window: the window tmux reports active
MxAttachedWindow(wins) == CHOOSE w \in DOMAIN wins : wins[w].window_active

\* Window.attached_pane: the pane tmux reports active
ActivePos(win) == CHOOSE k \in 1..Len(win.panes) : win.panes[k].pane_active
MxAttachedPane(win) == win.panes[ActivePos(win)].pane_id

PanePos(win, pid) == CHOOSE k \in 1..Len(win.panes) : win.panes[k].pane_id = pid
\* Pane.get('pane_index')
PaneIndex(win, pid) == PaneBaseIndex + PanePos(win, pid) - 1

PutWindows(srv, name, wins) == [srv EXCEPT !.sessions[name].windows = wins]

\* Server.new_session: a session with one window at the base index, one pane
MxNewSession(srv, name) ==
    [sessions |-> srv.sessions @@
         (name :> [windows |-> (srv.next_id :>
              NewWindowRec(BaseIndex, NoName, NoDir, srv.next_id + 1, TRUE))]),
     next_id |-> srv.next_id + 2]

MxKillSession(srv, name) ==
    [srv EXCEPT !.sessions = [n \in DOMAIN srv.sessions \ {name} |-> srv.sessions[n]]]

\* Window.move_window: possible when the destination index is free
MxCanMoveWindow(wins, index) == index \notin UsedIndexes(wins)
MxMoveWindow(wins, w, index) == [wins EXCEPT ![w].window_index = index]

\* Session.new_window(attach=False): possible when the index asked for is free
MxCanNewWindow(wins, index) == index = NoIndex \/ index \notin UsedIndexes(wins)
MxNewWindow(srv, name, window_name, sd, index) ==
    LET wins == Windows(srv, name)
        at == IF index = NoIndex THEN FreeIndex(wins) ELSE index
    IN [PutWindows(srv, name, wins @@ (srv.next_id :>
            NewWindowRec(at, window_name, sd, srv.next_id + 1, FALSE)))
        EXCEPT !.next_id = srv.next_id + 2]

\* Window.kill_window: when the active window goes, tmux makes `heir` active
MxKillWindow(wins, w, heir) ==
    [x \in DOMAIN wins \ {w} |->
        IF wins[w].window_active /\ x = heir
        THEN [wins[x] EXCEPT !.window_active = TRUE] ELSE wins[x]]

MxSetWindowOption(wins, w, key, val) ==
    [wins EXCEPT ![w].options = Append(@, [key |-> key, val |-> val])]

MxSelectWindow(wins, w) ==
    [x \in DOMAIN wins |-> [wins[x] EXCEPT !.window_active = (x = w)]]

MxSelectLayout(wins, w, layout) == [wins EXCEPT ![w].window_layout = layout]

\* Window.split_window(attach=True): the new pane follows the active pane and
\* becomes the active pane
MxSplitWindow(srv, name, w, sd) ==
    LET win == Windows(srv, name)[w]
        at == ActivePos(win)
        old == [k \in 1..Len(win.panes) |-> [win.panes[k] EXCEPT !.pane_active = FALSE]]
        panes == SubSeq(old, 1, at) \o <<NewPane(srv.next_id, sd)>>
                     \o SubSeq(old, at + 1, Len(old))
    IN [PutWindows(srv, name, [Windows(srv, name) EXCEPT ![w].panes = panes])
        EXCEPT !.next_id = srv.next_id + 1]

MxSendKeys(wins, w, pid, cmd) ==
    [wins EXCEPT ![w].panes[PanePos(wins[w], pid)].keys = Append(@, cmd)]

MxSelectPane(wins, w, pid) ==
    LET panes == wins[w].panes
    IN [wins EXCEPT ![w].panes = [k \in 1..Len(panes) |->
           [panes[k] EXCEPT !.pane_active = (panes[k].pane_id = pid)]]]

\* the window a pane is in
WindowOf(wins, pid) ==
    CHOOSE w \in DOMAIN wins : \E k \in 1..Len(wins[w].panes) : wins[w].panes[k].pane_id = pid

\* Session.windows: the window ids in index order
RECURSIVE ByIndex(_, _)
ByIndex(wins, ids) ==
    IF ids = {} THEN <<>>
    ELSE LET w == CHOOSE x \in ids :
                     \A y \in ids : wins[x].window_index <= wins[y].window_index
         IN <<w>> \o ByIndex(wins, ids \ {w})
SessionWindows(wins) == ByIndex(wins, DOMAIN wins)

---------------------------------------------------------------------------
(* The sessions that are live before the program runs. *)

LivePaths == {"/a", "/b"}
LiveCommands == {"-bash", "bash", "zsh", "python", "vim"}
LiveName(i) == IF i % 2 = 1 THEN "a" ELSE "b"

\* a session of shape s: window i has id i, s[i] panes, the active pane ap[i];
\* window aw is the active one; pane j (counted over the session) has attrs[j]
LiveSession(s, attrs, ap, aw) ==
    [windows |-> [wid \in 1..Len(s) |->
        [window_index |-> BaseIndex + wid - 1, window_name |-> LiveName(wid),
         start_directory |-> NoDir, window_layout |-> "tiled", options |-> <<>>,
         window_active |-> (wid = aw),
         panes |-> [k \in 1..s[wid] |->
            [pane_id |-> Len(s) + Offset(s, wid) + k, start_directory |-> NoDir,
             keys |-> <<>>, pane_active |-> (k = ap[wid]),
             pane_current_path |-> attrs[Offset(s, wid) + k].path,
             pane_current_command |-> attrs[Offset(s, wid) + k].cmd]]]]]

ActivePaneChoices(s) ==
    {f \in [1..Len(s) -> 1..SumSeq(s)] : \A i \in 1..Len(s) : f[i] <= s[i]}

ServerWith(name, sess) ==
    [sessions |-> (name :> sess),
     next_id |-> 1 + Len(sess.windows) + SumSeq([i \in 1..Len(sess.windows) |->
                                                    Len(sess.windows[i].panes)])]

LivePaneAttributes == [path : LivePaths, cmd : LiveCommands]

\* the servers build is run against when the host varies: no session, or one
\* session, named as the configuration's or not
HostSessions ==
    UNION { { LiveSession(s, [j \in 1..SumSeq(s) |->
                                [path |-> DefaultPath, cmd |-> DefaultShell]], ap, aw) :
                ap \in ActivePaneChoices(s), aw \in 1..Len(s) }
            : s \in {<<1>>, <<2>>, <<1, 1>>} }

HostServers ==
    {EmptyServer} \cup
    {ServerWith(name, sess) : name \in {SessionName, "o"}, sess \in HostSessions}

---------------------------------------------------------------------------
(* freeze(session) *)

\* the str 'pane' freeze leaves in place of a pane dict
PaneStr == [str |-> "pane"]
IsStr(pconf) == Has(pconf, "str")

\* pane_has_same_path, were a pane compared with itself
pane_has_same_path_as_itself(win, p) == p.pane_current_path = p.pane_current_path

\* lines 295-300
pane_has_same_path(win, p) == win.panes[1].pane_current_path = p.pane_current_path
AllSamePath(win) == \A k \in 1..Len(win.panes) : pane_has_same_path(win, win.panes[k])

\* lines 317-324
filter_interpretters_and_shells(current_cmd) ==
    \/ StartsWith(current_cmd, "-")
    \/ \E cmd \in {"python", "ruby", "node"} : EndsWith(current_cmd, cmd)

\* lines 304-310: the pane dict before the command is looked at
FreezePaneDirectory(wconf, p) ==
    [shell_command |-> IF ~Has(wconf, "start_directory")
                       THEN <<"cd " \o p.pane_current_path>> ELSE <<>>]

\* lines 312-313
FreezePaneFocus(pconf, p) ==
    IF p.pane_active THEN pconf @@ [focus |-> TRUE] ELSE pconf

\* lines 315-336
FreezePaneCommand(pconf, p) ==
    LET current_cmd == IF filter_interpretters_and_shells(p.pane_current_command)
                       THEN "" ELSE p.pane_current_command
    IN IF current_cmd # ""
       THEN [pconf EXCEPT !.shell_command = Append(@,
                IF current_cmd = "bash" \/ current_cmd = "Python"
                THEN EmptyList ELSE current_cmd)]
       ELSE IF Len(pconf.shell_command) = 0 THEN PaneStr ELSE pconf

\* lines 303-338
FreezePane(wconf, p) ==
    FreezePaneCommand(FreezePaneFocus(FreezePaneDirectory(wconf, p), p), p)

\* lines 285-301
FreezeWindowHead(win) ==
    [options |-> win.options, window_name |-> win.window_name,
     layout |-> win.window_layout]
    @@ (IF win.window_active THEN [focus |-> TRUE] ELSE EmptyDict)
    @@ (IF AllSamePath(win)
        THEN [start_directory |-> win.panes[1].pane_current_path] ELSE EmptyDict)

\* lines 284-340
FreezeWindow(win) ==
    LET wconf == FreezeWindowHead(win)
    IN wconf @@ [panes |-> [k \in 1..Len(win.panes) |-> FreezePane(wconf, win.panes[k])]]

\* lines 271-342
freeze(name, sess) ==
    LET order == SessionWindows(sess.windows)
    IN [session_name |-> name,
        windows |-> [i \in 1..Len(order) |-> FreezeWindow(sess.windows[order[i]])]]

---------------------------------------------------------------------------
(* WorkspaceBuilder.  bld holds self.server (whether a Server was given),  *)
(* self.session (its name), and the locals of build, iter_create_windows   *)
(* and iter_create_panes: i, w, w1, the pane position k (pindex is         *)
(* PaneBaseIndex + k - 1), p, focus, focus_pane, and the positions o and c *)
(* in the options and the shell_command being walked.  arg is build's      *)
(* session argument, created whether build made the session itself, fresh  *)
(* whether the session had one window of one pane when the windows were    *)
(* started on; built and builtp list the windows and panes the generators  *)
(* have yielded.                                                           *)

NoBuilder ==
    [server |-> FALSE, arg |-> NoName, session |-> NoName, created |-> FALSE,
     fresh |-> FALSE,
     i |-> 0, o |-> 0, w |-> None, w1 |-> None, k |-> 0, c |-> 0, p |-> None,
     focus |-> None, focus_pane |-> None, built |-> <<>>, builtp |-> <<>>]

Wconf(b) == sconf["windows"][b.i]
Pconf(b) == Wconf(b)["panes"][b.k]

\* 'focus' in d and d['focus']
Focus(d) == Has(d, "focus") /\ d["focus"]

At(b, label) == [b |-> b, pc |-> label, st |-> ""]
Done(b, st) == [b |-> b, pc |-> "done", st |-> st]

\* build, lines 170-171
AfterWindows(b) == IF b.focus # None THEN At(b, "select_window") ELSE Done(b, "ok")

\* EnterWindow, were the default window left where it is for the first window
EnterWindowWithoutMove(b, i) == At([b EXCEPT !.i = i, !.w1 = None], "new_window")

\* iter_create_windows, lines 185-195
EnterWindow(b, i) ==
    At([b EXCEPT !.i = i, !.w1 = None], IF i = 1 THEN "move_window" ELSE "new_window")

NextWindow(b) ==
    IF b.i < Len(sconf["windows"]) THEN EnterWindow(b, b.i + 1) ELSE AfterWindows(b)

\* AfterPanes, were the first window declared focus kept as the one to select
AfterPanesKeepsFirstFocus(b) ==
    LET b1 == IF Focus(Wconf(b)) /\ b.focus = None THEN [b EXCEPT !.focus = b.w] ELSE b
    IN IF b1.focus_pane # None THEN At(b1, "select_pane") ELSE NextWindow(b1)

\* build, lines 164-168
AfterPanes(b) ==
    LET b1 == IF Focus(Wconf(b)) THEN [b EXCEPT !.focus = b.w] ELSE b
    IN IF b1.focus_pane # None THEN At(b1, "select_pane") ELSE NextWindow(b1)

\* iter_create_panes, lines 236-241
EnterPane(b, k) ==
    At([b EXCEPT !.k = k], IF k = 1 THEN "attached_pane" ELSE "split_window")

NextPane(b) ==
    IF b.k < Len(Wconf(b)["panes"]) THEN EnterPane(b, b.k + 1) ELSE AfterPanes(b)

\* build, lines 161-162
AfterYieldLayout(b) ==
    NextPane(IF ~IsStr(Pconf(b)) /\ Focus(Pconf(b)) THEN [b EXCEPT !.focus_pane = b.p] ELSE b)

\* iter_create_panes yields; build, lines 155-159
AtYieldPane(b) ==
    LET b1 == [b EXCEPT !.builtp[b.i] = Append(@, b.p)]
    IN IF Has(Wconf(b), "layout") THEN At(b1, "select_layout_build") ELSE AfterYieldLayout(b1)

\* iter_create_panes, lines 263-266
AfterSendKeys(b) ==
    IF Focus(Pconf(b)) THEN At(b, "select_pane_created") ELSE AtYieldPane(b)

\* AtSendKeys, were only the first entry of shell_command sent
AtSendKeysFirstOnly(b, c) ==
    IF IsStr(Pconf(b)) THEN Done(b, "TypeError")
    ELSE IF c <= 1 /\ c <= Len(Pconf(b)["shell_command"]) THEN At([b EXCEPT !.c = c], "send_keys")
    ELSE AfterSendKeys(b)

\* iter_create_panes, lines 260-261; indexing the str 'pane' raises TypeError
AtSendKeys(b, c) ==
    IF IsStr(Pconf(b)) THEN Done(b, "TypeError")
    ELSE IF c <= Len(Pconf(b)["shell_command"]) THEN At([b EXCEPT !.c = c], "send_keys")
    ELSE AfterSendKeys(b)

\* iter_create_panes, lines 255-258
AfterPaneCreated(b) ==
    IF Has(Wconf(b), "layout") THEN At(b, "select_layout_pane") ELSE AtSendKeys(b, 1)

\* iter_create_windows yields; build, lines 151-154
AtYieldWindow(b) ==
    EnterPane([b EXCEPT !.focus_pane = None, !.built = Append(@, b.w),
                        !.builtp = Append(@, <<>>)], 1)

\* iter_create_windows, lines 213-216
AfterOptions(b) ==
    IF Focus(Wconf(b)) THEN At(b, "select_window_created") ELSE AtYieldWindow(b)

\* iter_create_windows, lines 209-211
AtOption(b, o) ==
    IF Has(Wconf(b), "options") /\ o <= Len(Wconf(b)["options"])
    THEN At([b EXCEPT !.o = o], "set_option") ELSE AfterOptions(b)

\* AfterNewWindow, were the displaced default window never killed
AfterNewWindowKeepsDefault(b) == AtOption(b, 1)

\* iter_create_windows, lines 205-208
AfterNewWindow(b) ==
    IF b.i = 1 /\ b.w1 # None THEN At(b, "kill_window") ELSE AtOption(b, 1)

\* build, line 150
AfterBeforeScript(b) ==
    IF Len(sconf["windows"]) >= 1 THEN EnterWindow(b, 1) ELSE AfterWindows(b)

\* build, lines 141-143
AfterSession(b) ==
    LET b1 == [b EXCEPT !.focus = None]
    IN IF Has(sconf, "before_script") THEN At(b1, "before_script") ELSE AfterBeforeScript(b1)

---------------------------------------------------------------------------
(* The steps of the program. *)

Call(op, w, p, arg) == [op |-> op, win |-> w, pane |-> p, arg |-> arg]

Goto(n) == bld' = n.b /\ pc' = n.pc /\ status' = n.st

Raise(exception) == pc' = "done" /\ status' = exception

\* how a tmux call can end: it raises when tmux refuses it, and at any time
\* when the host is allowed to fail
Outcomes(possible) ==
    (IF possible THEN {TRUE} ELSE {}) \cup (IF env.faults \/ ~possible THEN {FALSE} ELSE {})

\* TmuxFailed, were the session rolled back when a call fails
TmuxFailedRollsBack(call) ==
    /\ calls' = Append(calls, call) \o <<Call("kill-session", None, None, bld.session)>>
    /\ server' = MxKillSession(server, bld.session)
    /\ Raise("TmuxError")
    /\ UNCHANGED <<sconf, bld, env, frozen>>

TmuxFailed(call) ==
    /\ calls' = Append(calls, call)
    /\ Raise("TmuxError")
    /\ UNCHANGED <<sconf, server, bld, env, frozen>>

Wins == Windows(server, bld.session)

\* not_sconf, were the configuration never taken to be empty
not_sconf_unchecked == FALSE

\* `not sconf`, line 82
not_sconf == DOMAIN sconf = {}

\* WorkspaceBuilder.__init__, lines 82-92
Init_(srv) ==
    /\ pc = "init"
    /\ IF not_sconf
       THEN Raise("EmptyConfigException") /\ UNCHANGED bld
       ELSE bld' = [bld EXCEPT !.server = srv] /\ pc' = "build" /\ UNCHANGED status
    /\ UNCHANGED <<sconf, server, calls, env, frozen>>

\* has_session, were an existing session never seen
has_session_unseen == FALSE

\* self.server.has_session(self.sconf['session_name']), line 114
has_session == MxHasSession(server, sconf["session_name"])

\* build, lines 107-141, called with `session` (NoName: without one)
BuildSession(session) ==
    /\ pc = "build"
    /\ UNCHANGED <<sconf, env, frozen>>
    /\ IF session = NoName /\ ~bld.server
       THEN /\ Raise("TmuxpException")
            /\ bld' = [bld EXCEPT !.arg = session]
            /\ UNCHANGED <<server, calls>>
       ELSE IF session = NoName /\ has_session
       THEN /\ Raise("TmuxSessionExists")
            /\ bld' = [bld EXCEPT !.arg = session, !.session = sconf["session_name"]]
            /\ calls' = Append(calls, Call("has-session", None, None, sconf["session_name"]))
            /\ UNCHANGED server
       ELSE LET name == IF session = NoName THEN sconf["session_name"] ELSE session
                srv == IF session = NoName THEN MxNewSession(server, name) ELSE server
                b == [bld EXCEPT !.arg = session, !.session = name, !.server = TRUE,
                                 !.created = (session = NoName),
                                 !.fresh = /\ Cardinality(DOMAIN Windows(srv, name)) = 1
                                           /\ \A w \in DOMAIN Windows(srv, name) :
                                                 Len(Windows(srv, name)[w].panes) = 1]
            IN /\ server' = srv
               /\ calls' = calls \o
                    (IF session = NoName
                     THEN <<Call("has-session", None, None, name),
                            Call("new-session", None, None, name)>>
                     ELSE <<>>) \o
                    <<Call("list-sessions", None, None, ""),
                      Call("has-session", None, None, name)>>
               /\ Goto(AfterSession(b))

\* BeforeScript, were the session left alive when the script fails
BeforeScriptWithoutKill(ok) ==
    /\ pc = "before_script"
    /\ UNCHANGED <<sconf, env, frozen, server, calls>>
    /\ IF ok THEN Goto(AfterBeforeScript(bld))
       ELSE Raise("BeforeScriptError") /\ UNCHANGED bld

\* build, lines 143-148; run_before_script succeeds or raises
BeforeScript(ok) ==
    /\ pc = "before_script"
    /\ UNCHANGED <<sconf, env, frozen>>
    /\ IF ok
       THEN Goto(AfterBeforeScript(bld)) /\ UNCHANGED <<server, calls>>
       ELSE /\ server' = MxKillSession(server, bld.session)
            /\ calls' = Append(calls, Call("kill-session", None, None, bld.session))
            /\ Raise("BeforeScriptError")
            /\ UNCHANGED bld

\* MoveWindow, were the displaced default window killed before its replacement exists
MoveWindowThenKill ==
    /\ pc = "move_window"
    /\ LET w1 == MxAttachedWindow(Wins)
           call == Call("move-window", w1, None, HighIndex)
       IN \E ok \in Outcomes(MxCanMoveWindow(Wins, HighIndex)) :
            IF ok
            THEN /\ server' = PutWindows(server, bld.session, MxMoveWindow(Wins, w1, HighIndex))
                 /\ calls' = Append(calls, call)
                 /\ Goto(At([bld EXCEPT !.w1 = w1], "kill_window"))
                 /\ UNCHANGED <<sconf, env, frozen>>
            ELSE TmuxFailed(call)

\* iter_create_windows, lines 192-194
MoveWindow ==
    /\ pc = "move_window"
    /\ LET w1 == MxAttachedWindow(Wins)
           call == Call("move-window", w1, None, HighIndex)
       IN \E ok \in Outcomes(MxCanMoveWindow(Wins, HighIndex)) :
            IF ok
            THEN /\ server' = PutWindows(server, bld.session, MxMoveWindow(Wins, w1, HighIndex))
                 /\ calls' = Append(calls, call)
                 /\ Goto(At([bld EXCEPT !.w1 = w1], "new_window"))
                 /\ UNCHANGED <<sconf, env, frozen>>
            ELSE TmuxFailed(call)

\* iter_create_windows, lines 186-189 and 197-203
NewWindow ==
    /\ pc = "new_window"
    /\ LET wconf == Wconf(bld)
           window_name == IF Has(wconf, "window_name") THEN wconf["window_name"] ELSE NoName
           sd == IF Has(wconf, "start_directory") THEN wconf["start_directory"] ELSE NoDir
           window_index == IF Has(wconf, "window_index") THEN wconf["window_index"] ELSE NoIndex
           w == server.next_id
           call == Call("new-window", w, None, window_index)
       IN \E ok \in Outcomes(MxCanNewWindow(Wins, window_index)) :
            IF ok
            THEN /\ server' = MxNewWindow(server, bld.session, window_name, sd, window_index)
                 /\ calls' = Append(calls, call)
                 /\ Goto(AfterNewWindow([bld EXCEPT !.w = w]))
                 /\ UNCHANGED <<sconf, env, frozen>>
            ELSE TmuxFailed(call)

\* iter_create_windows, lines 205-206; tmux picks the window that becomes active
KillWindow ==
    /\ pc = "kill_window"
    /\ LET call == Call("kill-window", bld.w1, None, "")
       IN \E ok \in Outcomes(TRUE), heir \in DOMAIN Wins \ {bld.w1} :
            IF ok
            THEN /\ server' = PutWindows(server, bld.session, MxKillWindow(Wins, bld.w1, heir))
                 /\ calls' = Append(calls, call)
                 /\ Goto(AtOption(bld, 1))
                 /\ UNCHANGED <<sconf, env, frozen>>
            ELSE TmuxFailed(call)

\* iter_create_windows, lines 209-211
SetWindowOption ==
    /\ pc = "set_option"
    /\ LET opt == Wconf(bld)["options"][bld.o]
           call == Call("set-window-option", bld.w, None, opt.key)
       IN \E ok \in Outcomes(TRUE) :
            IF ok
            THEN /\ server' = PutWindows(server, bld.session,
                                 MxSetWindowOption(Wins, bld.w, opt.key, opt.val))
                 /\ calls' = Append(calls, call)
                 /\ Goto(AtOption(bld, bld.o + 1))
                 /\ UNCHANGED <<sconf, env, frozen>>
            ELSE TmuxFailed(call)

\* iter_create_windows, lines 213-214
SelectWindowCreated ==
    /\ pc = "select_window_created"
    /\ LET call == Call("select-window", bld.w, None, "")
       IN \E ok \in Outcomes(TRUE) :
            IF ok
            THEN /\ server' = PutWindows(server, bld.session, MxSelectWindow(Wins, bld.w))
                 /\ calls' = Append(calls, call)
                 /\ Goto(AtYieldWindow(bld))
                 /\ UNCHANGED <<sconf, env, frozen>>
            ELSE TmuxFailed(call)

\* iter_create_panes, line 256
PaneIndexAsserted(b, srv) ==
    IF PaneIndex(Windows(srv, b.session)[b.w], b.p) = PaneBaseIndex + b.k - 1
    THEN AfterPaneCreated(b) ELSE Done(b, "AssertionError")

\* iter_create_panes, lines 234-239 and 255-256
AttachedPane ==
    /\ pc = "attached_pane"
    /\ calls' = Append(calls, Call("show-window-option", bld.w, None, "pane-base-index"))
    /\ Goto(PaneIndexAsserted([bld EXCEPT !.p = MxAttachedPane(Wins[bld.w])], server))
    /\ UNCHANGED <<sconf, server, env, frozen>>

\* iter_create_panes, lines 242-249
get_pane_start_directory(pconf, wconf) ==
    IF Has(pconf, "start_directory") THEN pconf["start_directory"]
    ELSE IF Has(wconf, "start_directory") THEN wconf["start_directory"]
    ELSE NoDir

\* iter_create_panes, lines 250-256
SplitWindow ==
    /\ pc = "split_window"
    /\ LET sd == get_pane_start_directory(Pconf(bld), Wconf(bld))
           p == server.next_id
           srv == MxSplitWindow(server, bld.session, bld.w, sd)
           call == Call("split-window", bld.w, p, sd)
       IN \E ok \in Outcomes(TRUE) :
            IF ok
            THEN /\ server' = srv
                 /\ calls' = Append(calls, call)
                 /\ Goto(PaneIndexAsserted([bld EXCEPT !.p = p], srv))
                 /\ UNCHANGED <<sconf, env, frozen>>
            ELSE TmuxFailed(call)

\* a call that targets window w (and pane p), moves the server to wins and goes on at n
WindowCall(label, call, wins, n) ==
    /\ pc = label
    /\ \E ok \in Outcomes(TRUE) :
         IF ok
         THEN /\ server' = PutWindows(server, bld.session, wins)
              /\ calls' = Append(calls, call)
              /\ Goto(n)
              /\ UNCHANGED <<sconf, env, frozen>>
         ELSE TmuxFailed(call)

\* iter_create_panes, lines 257-258
SelectLayoutPane ==
    WindowCall("select_layout_pane", Call("select-layout", bld.w, None, Wconf(bld)["layout"]),
               MxSelectLayout(Wins, bld.w, Wconf(bld)["layout"]), AtSendKeys(bld, 1))

\* iter_create_panes, lines 260-261
SendKeys ==
    WindowCall("send_keys",
               Call("send-keys", bld.w, bld.p, Pconf(bld)["shell_command"][bld.c]),
               MxSendKeys(Wins, bld.w, bld.p, Pconf(bld)["shell_command"][bld.c]),
               AtSendKeys(bld, bld.c + 1))

\* SelectPaneCreated, were the first pane of the window selected in place of p
SelectPaneCreatedFirst ==
    WindowCall("select_pane_created", Call("select-pane", bld.w, bld.p, ""),
               MxSelectPane(Wins, bld.w, Wins[bld.w].panes[1].pane_id), AtYieldPane(bld))

\* iter_create_panes, lines 263-264
SelectPaneCreated ==
    WindowCall("select_pane_created", Call("select-pane", bld.w, bld.p, ""),
               MxSelectPane(Wins, bld.w, bld.p), AtYieldPane(bld))

\* build, lines 158-159
SelectLayoutBuild ==
    WindowCall("select_layout_build", Call("select-layout", bld.w, None, Wconf(bld)["layout"]),
               MxSelectLayout(Wins, bld.w, Wconf(bld)["layout"]), AfterYieldLayout(bld))

\* build, lines 167-168
SelectPane ==
    WindowCall("select_pane", Call("select-pane", bld.w, bld.focus_pane, ""),
               MxSelectPane(Wins, WindowOf(Wins, bld.focus_pane), bld.focus_pane),
               NextWindow(bld))

\* build, lines 170-171
SelectWindow ==
    WindowCall("select_window", Call("select-window", bld.focus, None, ""),
               MxSelectWindow(Wins, bld.focus), Done(bld, "ok"))

\* freeze(session) on the live session, lines 271-342
Freeze ==
    /\ pc = "freeze"
    /\ sconf' = freeze(SessionName, server.sessions[SessionName])
    /\ frozen' = server.sessions[SessionName]
    /\ pc' = "frozen"
    /\ UNCHANGED <<server, bld, status, calls, env>>

\* between freeze and build the caller keeps the live session or kills it
Reload(kill) ==
    /\ pc = "frozen"
    /\ server' = IF kill THEN MxKillSession(server, SessionName) ELSE server
    /\ env' = [env EXCEPT !.killed = kill]
    /\ pc' = "init"
    /\ UNCHANGED <<sconf, bld, status, calls, frozen>>

---------------------------------------------------------------------------

\* a configuration of some shape whose windows take their keys from WA and
\* whose panes take theirs from PA, to be built on a server without sessions
PlainInput(WA, PA, shapes) ==
    /\ \E s \in shapes : \E wa \in [1..Len(s) -> WA] : \E pa \in [1..SumSeq(s) -> PA] :
          sconf = Config(WindowList(s, wa, pa))
    /\ server = EmptyServer
    /\ env = [faults |-> FALSE, killed |-> FALSE]
    /\ pc = "init"

\* a configuration that uses every key, or the smallest one, or the empty
\* one, on a server with or without a session, with tmux calls that may fail
HostInput ==
    /\ sconf \in HostConfigs \cup {EmptyDict}
    /\ server \in HostServers
    /\ env \in [faults : BOOLEAN, killed : {FALSE}]
    /\ pc = "init"

\* a live session of at most MaxLivePanes panes, to be frozen and built again
LiveInput ==
    /\ sconf = EmptyDict
    /\ \E s \in Shapes(MaxLivePanes, MaxLivePanes) :
         \E attrs \in [1..SumSeq(s) -> LivePaneAttributes] :
            \E ap \in ActivePaneChoices(s) : \E aw \in 1..Len(s) :
               server = ServerWith(SessionName, LiveSession(s, attrs, ap, aw))
    /\ env = [faults |-> FALSE, killed |-> FALSE]
    /\ pc = "freeze"

Init ==
    /\ bld = NoBuilder
    /\ status = ""
    /\ calls = <<>>
    /\ frozen = EmptyDict
    /\ \/ PlainInput(FocusWindowKeys, FocusPaneKeys, Shapes(MaxPanes, MaxPanes))
       \/ PlainInput(DirectoryWindowKeys, DirectoryPaneKeys, Shapes(MaxPanes, MaxPanes))
       \/ PlainInput({EmptyDict}, CommandPaneKeys, Shapes(MaxPanes, MaxPanes))
       \/ PlainInput(NamedWindowKeys, {PlainPane}, Shapes(MaxPanes, 1))
       \/ PlainInput(IndexedWindowKeys, {PlainPane}, Shapes(MaxPanes, 1))
       \/ HostInput
       \/ LiveInput

Next ==
    \/ \E srv \in BOOLEAN : Init_(srv)
    \/ \E session \in {NoName} \cup DOMAIN server.sessions : BuildSession(session)
    \/ \E ok \in BOOLEAN : BeforeScript(ok)
    \/ MoveWindow
    \/ NewWindow
    \/ KillWindow
    \/ SetWindowOption
    \/ SelectWindowCreated
    \/ AttachedPane
    \/ SplitWindow
    \/ SelectLayoutPane
    \/ SendKeys
    \/ SelectPaneCreated
    \/ SelectLayoutBuild
    \/ SelectPane
    \/ SelectWindow
    \/ Freeze
    \/ \E kill \in BOOLEAN : Reload(kill)

Spec == Init /\ [][Next]_vars

---------------------------------------------------------------------------
(* What the claims are stated with. *)

Completed == pc = "done" /\ status = "ok"

ConfWindows == sconf["windows"]
ConfPanes(i) == ConfWindows[i]["panes"]

\* the calls of the log with one of the names in ops, in the order issued
CallsOf(ops) == LET Among(c) == c.op \in ops IN SelectSeq(calls, Among)

WindowPaneOps ==
    {"move-window", "new-window", "kill-window", "set-window-option", "select-window",
     "split-window", "select-layout", "send-keys", "select-pane"}

AnyFocus(ds) == \E i \in 1..Len(ds) : Focus(ds[i])
LastFocus(ds) ==
    CHOOSE i \in 1..Len(ds) : Focus(ds[i]) /\ \A j \in (i + 1)..Len(ds) : ~Focus(ds[j])

ActiveWindows(wins) == {w \in DOMAIN wins : wins[w].window_active}
ActivePanes(win) == {win.panes[k].pane_id : k \in {j \in 1..Len(win.panes) : win.panes[j].pane_active}}

\* the window carries the name and the options its configuration gives
Reflects(win, wconf) ==
    /\ Has(wconf, "window_name") => win.window_name = wconf["window_name"]
    /\ win.options = IF Has(wconf, "options") THEN wconf["options"] ELSE <<>>

---------------------------------------------------------------------------
(* C1: a build that completes on a freshly created session leaves exactly  *)
(* one window per configured window, the default window gone, and in each  *)
(* window exactly one pane per configured pane; windows and panes were     *)
(* created in the order of the configuration.                              *)
C1_OneWindowPerEntryInOrder ==
    (Completed /\ bld.fresh) =>
        /\ Len(bld.built) = Len(ConfWindows)
        /\ Cardinality(DOMAIN Wins) = Len(ConfWindows)
        /\ DOMAIN Wins = {bld.built[i] : i \in 1..Len(bld.built)}
        /\ CallsOf({"move-window"})[1].win \notin DOMAIN Wins
        /\ [i \in 1..Len(ConfWindows) |-> CallsOf({"new-window"})[i].win] = bld.built
        /\ \A i \in 1..Len(ConfWindows) :
             LET win == Wins[bld.built[i]]
             IN /\ Len(win.panes) = Len(ConfPanes(i))
                /\ [k \in 1..Len(win.panes) |-> win.panes[k].pane_id] = bld.builtp[i]
                /\ \A k \in 2..Len(win.panes) :
                     /\ win.panes[k - 1].pane_id < win.panes[k].pane_id
                     /\ \E c \in 1..Len(calls) :
                          /\ calls[c].op = "split-window"
                          /\ calls[c].pane = win.panes[k].pane_id
                          /\ calls[c].win = bld.built[i]
        /\ \A i \in 2..Len(bld.built) : bld.built[i - 1] < bld.built[i]

C1_Witness ==
    /\ Completed /\ bld.fresh
    /\ Len(ConfWindows) >= 2
    /\ \E i \in 1..Len(ConfWindows) : Len(ConfPanes(i)) >= 2

---------------------------------------------------------------------------
(* C2, as claimed: after any completed build, even one on a freshly        *)
(* created session, the first window of the session (the one of lowest     *)
(* index) is the window created for windows[0] and carries its name and    *)
(* options.                                                                *)
C2_FirstWindowIsFirstConfigured ==
    (Completed /\ bld.fresh) =>
        /\ SessionWindows(Wins)[1] = bld.built[1]
        /\ Reflects(Wins[SessionWindows(Wins)[1]], ConfWindows[1])

NoIndexHints == \A i \in 1..Len(ConfWindows) : ~Has(ConfWindows[i], "window_index")

(* C2, amended: after any completed build the displaced default window is  *)
(* no longer in the session and the window created for windows[0] carries  *)
(* windows[0]'s name and options; on a freshly created session it is the   *)
(* first window of the session when no window has a window_index hint.     *)
C2_DefaultWindowReplaced ==
    Completed =>
        /\ \A c \in 1..Len(calls) :
             calls[c].op = "move-window" => calls[c].win \notin DOMAIN Wins
        /\ bld.built[1] \in DOMAIN Wins
        /\ Reflects(Wins[bld.built[1]], ConfWindows[1])
        /\ (bld.fresh /\ NoIndexHints) => SessionWindows(Wins)[1] = bld.built[1]

C2_Witness ==
    /\ Completed /\ bld.fresh /\ NoIndexHints
    /\ Len(ConfWindows) >= 2
    /\ Has(ConfWindows[1], "window_name") /\ Has(ConfWindows[1], "options")
    /\ Has(ConfWindows[2], "window_name")
    /\ ConfWindows[2]["window_name"] # ConfWindows[1]["window_name"]

(* C3: after any completed build at most one window is active and at most  *)
(* one pane of each window; when a window is declared focus: true the      *)
(* active window is the last one so declared, and in each window with a    *)
(* pane declared focus: true the active pane is the last one so declared.  *)
C3_FocusIsLastDeclared ==
    Completed =>
        /\ Cardinality(ActiveWindows(Wins)) <= 1
        /\ \A w \in DOMAIN Wins : Cardinality(ActivePanes(Wins[w])) <= 1
        /\ AnyFocus(ConfWindows) =>
             ActiveWindows(Wins) = {bld.built[LastFocus(ConfWindows)]}
        /\ \A i \in 1..Len(ConfWindows) :
             AnyFocus(ConfPanes(i)) =>
                ActivePanes(Wins[bld.built[i]]) = {bld.builtp[i][LastFocus(ConfPanes(i))]}

C3_Witness ==
    /\ Completed
    /\ \E i \in 1..Len(ConfWindows) :
         Focus(ConfWindows[i]) /\ LastFocus(ConfWindows) > i
    /\ \E i \in 1..Len(ConfWindows) : \E k \in 1..Len(ConfPanes(i)) :
         Focus(ConfPanes(i)[k]) /\ LastFocus(ConfPanes(i)) > k

\* the directory a pane is to start in: its own, else its window's, else none
ResolvedDirectory(pconf, wconf) ==
    IF Has(pconf, "start_directory") THEN pconf["start_directory"]
    ELSE IF Has(wconf, "start_directory") THEN wconf["start_directory"]
    ELSE NoDir

(* C4, as claimed: every pane of every window built, whatever its position *)
(* in the window, is created with its own start_directory if it has one,   *)
(* else with its window's if it has one, else with none.                   *)
C4_StartDirectoryPrecedence ==
    Completed =>
        \A i \in 1..Len(ConfWindows) : \A k \in 1..Len(ConfPanes(i)) :
            Wins[bld.built[i]].panes[k].start_directory =
                ResolvedDirectory(ConfPanes(i)[k], ConfWindows[i])


\* freeze has run: frozen is the session it read and sconf its result
Frozen == Has(frozen, "windows")
FrozenOrder == SessionWindows(frozen.windows)
FrozenWindow(i) == frozen.windows[FrozenOrder[i]]

(* C5, as claimed: build, given a server and the result of freeze once the *)
(* frozen session is gone, completes and yields a session with as many     *)
(* windows as the frozen one, of the same names, with as many panes each.  *)
C5_FreezeThenBuildKeepsShape ==
    (Frozen /\ env.killed /\ bld.server /\ pc = "done") =>
        /\ status = "ok"
        /\ Len(SessionWindows(Wins)) = Len(FrozenOrder)
        /\ \A i \in 1..Len(FrozenOrder) :
             LET win == Wins[SessionWindows(Wins)[i]]
             IN /\ win.window_name = FrozenWindow(i).window_name
                /\ Len(win.panes) = Len(FrozenWindow(i).panes)

\* shell_command of a frozen pane: none for the str 'pane'
FrozenCommands(pconf) == IF IsStr(pconf) THEN <<>> ELSE pconf["shell_command"]

IsCd(cmd) == StartsWith(cmd, "cd ")

(* C6: for every window frozen, the window has a start_directory and none  *)
(* of its panes a cd command iff all its panes report the same current     *)
(* path; otherwise it has no start_directory and each pane's shell_command *)
(* begins with 'cd ' and that pane's current path.                         *)
C6_HoistDirectoryIffSamePath ==
    Frozen =>
        /\ Len(ConfWindows) = Len(FrozenOrder)
        /\ \A i \in 1..Len(FrozenOrder) :
             LET win == FrozenWindow(i)
                 wconf == ConfWindows[i]
                 same == \A j, k \in 1..Len(win.panes) :
                            win.panes[j].pane_current_path = win.panes[k].pane_current_path
             IN /\ Len(wconf["panes"]) = Len(win.panes)
                /\ same <=> Has(wconf, "start_directory")
                /\ same =>
                     /\ wconf["start_directory"] = win.panes[1].pane_current_path
                     /\ \A k \in 1..Len(win.panes) :
                          \A c \in 1..Len(FrozenCommands(wconf["panes"][k])) :
                             ~IsCd(FrozenCommands(wconf["panes"][k])[c])
                /\ ~same =>
                     \A k \in 1..Len(win.panes) :
                        /\ Len(FrozenCommands(wconf["panes"][k])) >= 1
                        /\ FrozenCommands(wconf["panes"][k])[1] =
                              "cd " \o win.panes[k].pane_current_path
                        /\ \A c \in 2..Len(FrozenCommands(wconf["panes"][k])) :
                             ~IsCd(FrozenCommands(wconf["panes"][k])[c])

C6_Witness ==
    /\ Frozen /\ pc = "frozen"
    /\ \E i \in 1..Len(FrozenOrder) :
         /\ Len(FrozenWindow(i).panes) >= 2
         /\ FrozenWindow(i).panes[1].pane_current_path
               # FrozenWindow(i).panes[2].pane_current_path
         /\ ~IsStr(ConfPanes(i)[2])

ShellNames == {"sh", "bash", "zsh"}
InterpreterNames == {"python", "ruby", "node"}

(* C7, as claimed: no frozen pane's shell_command holds the bare name of   *)
(* an interactive shell (a name with the login marker '-' in front, or sh, *)
(* bash, zsh) or of an interpreter (python, ruby, node).                   *)
C7_NoBareShellOrInterpreter ==
    Frozen =>
        \A i \in 1..Len(ConfWindows) : \A k \in 1..Len(ConfPanes(i)) :
            \A c \in 1..Len(FrozenCommands(ConfPanes(i)[k])) :
                LET cmd == FrozenCommands(ConfPanes(i)[k])[c]
                IN /\ ~StartsWith(cmd, "-")
                   /\ cmd \notin ShellNames
                   /\ cmd \notin InterpreterNames

(* C8: a build with an empty configuration ends with the empty-            *)
(* configuration error, before any builder attribute is set and with no    *)
(* tmux call issued.                                                       *)
C8_EmptyConfigurationFailsWithoutCalls ==
    (DOMAIN sconf = {}) =>
        /\ calls = <<>>
        /\ bld = NoBuilder
        /\ pc \in {"init", "freeze", "done"}
        /\ pc = "done" => status = "EmptyConfigException"

C8_Witness ==
    /\ DOMAIN sconf = {} /\ pc = "done" /\ status = "EmptyConfigException"
    /\ DOMAIN server.sessions # {}

(* C9: when build is called without a session, on a builder that has a     *)
(* server, while a session of the configured name exists, it ends with the *)
(* session-exists error, having issued only the has-session query and no   *)
(* window or pane call; the server (the existing session's windows, panes  *)
(* and focus) is left as it was.                                           *)
C9_ExistingSessionUntouched ==
    [][(/\ pc = "build" /\ pc' # "build"
        /\ bld.server /\ bld'.arg = NoName
        /\ MxHasSession(server, sconf["session_name"]))
       => /\ pc' = "done" /\ status' = "TmuxSessionExists"
          /\ server' = server
          /\ \A c \in 1..Len(calls') : calls'[c].op = "has-session"]_vars

C9_Witness ==
    /\ pc = "done" /\ status = "TmuxSessionExists" /\ bld.arg = NoName
    /\ Cardinality(DOMAIN Windows(server, sconf["session_name"])) >= 2
    /\ CallsOf(WindowPaneOps) = <<>>

(* C10: when before_script fails, the session build created is killed, the *)
(* build ends with the script's error, and no window or pane call of the   *)
(* configuration (move, create, split, option, send-keys, select, layout)  *)
(* was issued: the last call is the kill of the session.                   *)
C10_FailedScriptKillsSession ==
    /\ (pc = "before_script" /\ bld.created) =>
          /\ MxHasSession(server, bld.session)
          /\ CallsOf(WindowPaneOps) = <<>>
    /\ (status = "BeforeScriptError" /\ bld.created) =>
          /\ pc = "done"
          /\ ~MxHasSession(server, bld.session)
          /\ CallsOf(WindowPaneOps) = <<>>
          /\ calls[Len(calls)].op = "kill-session"
          /\ bld.built = <<>>
    /\ (Has(sconf, "before_script") /\ CallsOf(WindowPaneOps) # <<>>) =>
          status # "BeforeScriptError"

C10_Witness ==
    /\ status = "BeforeScriptError" /\ bld.created
    /\ DOMAIN server.sessions # {}

---------------------------------------------------------------------------
\* the number of calls with a name in ops issued before the c-th call
CallsBefore(c, ops) == Cardinality({j \in 1..(c - 1) : calls[j].op \in ops})

TotalPanes == SumSeq([i \in 1..Len(ConfWindows) |-> Len(ConfPanes(i))])

(* C11, as claimed: no select-window call is issued before the last        *)
(* configured window has been created, a build issues at most one          *)
(* select-window call, and a completed build of a configuration with a     *)
(* window declared focus: true issues exactly one.                         *)
C11_WindowSelectedOnceAtTheEnd ==
    /\ \A c \in 1..Len(calls) :
         calls[c].op = "select-window" =>
            CallsBefore(c, {"new-window"}) = Len(ConfWindows)
    /\ Len(CallsOf({"select-window"})) <= 1
    /\ (Completed /\ AnyFocus(ConfWindows)) => Len(CallsOf({"select-window"})) = 1

(* C12, as claimed: every select-pane call is issued after all configured  *)
(* windows and panes were created, and before every select-window call.    *)
C12_PaneSelectedAfterAllExist ==
    /\ \A c \in 1..Len(calls) :
         calls[c].op = "select-pane" =>
            /\ CallsBefore(c, {"new-window"}) = Len(ConfWindows)
            /\ CallsBefore(c, {"split-window"}) = TotalPanes - Len(ConfWindows)
    /\ \A c, d \in 1..Len(calls) :
         (calls[c].op = "select-pane" /\ calls[d].op = "select-window") => c < d

\* the calls that displace, create and kill windows, in the order issued
WindowLifeCalls == CallsOf({"move-window", "new-window", "kill-window"})

(* C13: the calls that change the set of windows are issued in the order   *)
(* move the default window, create the first window, kill the default      *)
(* window, then only creations; the window killed is the one moved, it is  *)
(* killed while the window created for windows[0] is in the session, and   *)
(* the session has at least one window in every state of a build.          *)
C13_DefaultWindowKilledAfterReplaced ==
    /\ \A n \in 1..Len(WindowLifeCalls) :
         WindowLifeCalls[n].op =
            IF n = 1 THEN "move-window" ELSE IF n = 3 THEN "kill-window" ELSE "new-window"
    /\ Len(WindowLifeCalls) >= 3 =>
         /\ WindowLifeCalls[3].win = WindowLifeCalls[1].win
         /\ WindowLifeCalls[2].win # WindowLifeCalls[1].win
    /\ pc = "kill_window" => bld.w \in DOMAIN Wins \ {bld.w1}
    /\ (bld.session # NoName /\ MxHasSession(server, bld.session)) => DOMAIN Wins # {}

C13_Witness ==
    /\ Completed /\ bld.fresh
    /\ Len(WindowLifeCalls) >= 4
    /\ WindowLifeCalls[3].op = "kill-window"
    /\ WindowLifeCalls[1].win \notin DOMAIN Wins

\* the window_index hints of the configuration are pairwise distinct
DistinctIndexHints ==
    \A i, j \in 1..Len(ConfWindows) :
        (i # j /\ Has(ConfWindows[i], "window_index") /\ Has(ConfWindows[j], "window_index"))
            => ConfWindows[i]["window_index"] # ConfWindows[j]["window_index"]

AllIndexHints == \A i \in 1..Len(ConfWindows) : Has(ConfWindows[i], "window_index")

(* C14, as claimed: on a freshly created session, with tmux refusing no    *)
(* call it can carry out, a configuration whose windows all carry          *)
(* window_index hints, pairwise distinct, has the displacement and every   *)
(* window creation succeed, and each window built is at its hinted index.  *)
C14_DisplacementNeverCollides ==
    (bld.created /\ ~env.faults /\ AllIndexHints /\ DistinctIndexHints) =>
        /\ status # "TmuxError"
        /\ \A i \in 1..Len(bld.built) :
             (MxHasSession(server, bld.session) /\ bld.built[i] \in DOMAIN Wins) =>
                Wins[bld.built[i]].window_index = ConfWindows[i]["window_index"]

\* the panes of the session that have received keys
PanesWithKeys ==
    {p \in UNION {{Wins[w].panes[k] : k \in 1..Len(Wins[w].panes)} : w \in DOMAIN Wins} :
        p.keys # <<>>}

(* C15: after a completed build the keys each built pane has received are  *)
(* its shell_command list, in order (none for an empty list), and no other *)
(* pane has received any; every send-keys call is issued to a pane of the  *)
(* window being built, after the call that created that pane and before    *)
(* any later pane or window is created.                                    *)
C15_KeysSentAreShellCommand ==
    /\ Completed =>
         /\ \A i \in 1..Len(ConfWindows) : \A k \in 1..Len(ConfPanes(i)) :
              LET p == Wins[bld.built[i]].panes[k]
              IN /\ p.pane_id = bld.builtp[i][k]
                 /\ p.keys = ConfPanes(i)[k]["shell_command"]
         /\ \A p \in PanesWithKeys :
              \E i \in 1..Len(bld.builtp) : \E k \in 1..Len(bld.builtp[i]) :
                 bld.builtp[i][k] = p.pane_id
    /\ \A c \in 1..Len(calls) :
         calls[c].op = "send-keys" =>
            /\ \E j \in 1..(c - 1) :
                 \/ calls[j].op = "split-window" /\ calls[j].pane = calls[c].pane
                                                 /\ calls[j].win = calls[c].win
                 \/ calls[j].op = "new-window" /\ calls[j].win = calls[c].win
                                               /\ calls[c].pane = calls[j].win + 1
            /\ \A j \in 1..(c - 1) :
                 /\ calls[j].op = "split-window" => calls[j].pane <= calls[c].pane
                 /\ calls[j].op = "new-window" => calls[j].win < calls[c].pane
    /\ (pc = "send_keys" /\ MxHasSession(server, bld.session)) =>
         \E k \in 1..Len(Wins[bld.w].panes) : Wins[bld.w].panes[k].pane_id = bld.p

C15_Witness ==
    /\ Completed
    /\ \E i \in 1..Len(ConfWindows) : \E k \in 1..(Len(ConfPanes(i)) - 1) :
         /\ Len(ConfPanes(i)[k]["shell_command"]) >= 2
         /\ Wins[bld.built[i]].panes[k].keys = ConfPanes(i)[k]["shell_command"]
    /\ \E i \in 1..Len(ConfWindows) : \E k \in 1..Len(ConfPanes(i)) :
         /\ ConfPanes(i)[k]["shell_command"] = <<>>
         /\ Wins[bld.built[i]].panes[k].keys = <<>>

\* the windows and panes of the session, as the ids of the windows and of their panes
Population(srv, name) ==
    [w \in DOMAIN Windows(srv, name) |->
        [k \in 1..Len(Windows(srv, name)[w].panes) |-> Windows(srv, name)[w].panes[k].pane_id]]

(* C16: when a tmux call issued after the before_script step fails, the    *)
(* build ends at once with the tmux error: the failed call was issued once *)
(* and is the last call of the log, the server is as it was before the     *)
(* call (the session, with every window and pane built so far, is alive,   *)
(* nothing is killed), and no step follows a build that has ended so.      *)
C16_FailedCallAbortsWithoutRollback ==
    [][/\ (status = "" /\ status' = "TmuxError") =>
             /\ pc' = "done"
             /\ Len(calls') = Len(calls) + 1
             /\ SubSeq(calls', 1, Len(calls)) = calls
             /\ calls'[Len(calls')].op \in WindowPaneOps
             /\ server' = server
             /\ bld' = bld
             /\ MxHasSession(server', bld.session)
             /\ \A i \in 1..Len(bld.built) :
                  /\ bld.built[i] \in DOMAIN Windows(server', bld.session)
                  /\ \A k \in 1..Len(bld.builtp[i]) :
                       \E n \in 1..Len(Population(server', bld.session)[bld.built[i]]) :
                          Population(server', bld.session)[bld.built[i]][n] = bld.builtp[i][k]
       /\ status = "TmuxError" => (calls' = calls /\ server' = server)]_vars

C16_Witness ==
    /\ status = "TmuxError" /\ pc = "done" /\ env.faults
    /\ Len(bld.built) >= 1 /\ Len(bld.builtp[1]) >= 2
    /\ calls[Len(calls)].op = "new-window"
    /\ bld.built[1] \in DOMAIN Wins
    /\ Len(Wins[bld.built[1]].panes) >= 2

(* C17, as claimed: for every pane frozen, the frozen pane is marked focus *)
(* iff the live pane is the active pane of its window, whatever command it *)
(* runs and whether or not its directory was hoisted.                      *)
C17_FocusIffActive ==
    Frozen =>
        \A i \in 1..Len(FrozenOrder) : \A k \in 1..Len(FrozenWindow(i).panes) :
            Focus(ConfPanes(i)[k]) <=> FrozenWindow(i).panes[k].pane_active

(* C18, as claimed: for every pane frozen, the result is the placeholder   *)
(* exactly when no command survives the filter and no cd step was added    *)
(* (the window has a start_directory); otherwise shell_command is a        *)
(* non-empty sequence and every entry of it is a command string.           *)
C18_PlaceholderOrCommandStrings ==
    Frozen =>
        \A i \in 1..Len(FrozenOrder) : \A k \in 1..Len(FrozenWindow(i).panes) :
            LET pconf == ConfPanes(i)[k]
                p == FrozenWindow(i).panes[k]
                survives == /\ p.pane_current_command # ""
                            /\ ~filter_interpretters_and_shells(p.pane_current_command)
            IN /\ IsStr(pconf) <=> (~survives /\ Has(ConfWindows[i], "start_directory"))
               /\ ~IsStr(pconf) =>
                    /\ Len(pconf["shell_command"]) >= 1
                    /\ \A c \in 1..Len(pconf["shell_command"]) :
                         pconf["shell_command"][c] # EmptyList

(* C19: the pane-index assertion never fails: in every state of a build,   *)
(* for every window built so far, the k-th pane the build has yielded      *)
(* (counting from 0) is a pane of that window whose pane_index is the pane *)
(* base index plus k, and so is the pane just obtained for the window      *)
(* under construction; a built window's pane indices run from the base     *)
(* index without gap or repetition.                                        *)
C19_PaneIndexIsBasePlusPosition ==
    /\ status # "AssertionError"
    /\ (bld.built # <<>> /\ MxHasSession(server, bld.session)) =>
         /\ \A i \in 1..Len(bld.built) :
              LET win == Wins[bld.built[i]]
              IN /\ \A k \in 1..Len(bld.builtp[i]) :
                      /\ \E n \in 1..Len(win.panes) : win.panes[n].pane_id = bld.builtp[i][k]
                      /\ PaneIndex(win, bld.builtp[i][k]) = PaneBaseIndex + (k - 1)
                 /\ \A m, n \in 1..Len(win.panes) :
                      win.panes[m].pane_id = win.panes[n].pane_id => m = n
         /\ pc \in {"select_layout_pane", "send_keys", "select_pane_created"} =>
              PaneIndex(Wins[bld.w], bld.p) = PaneBaseIndex + (bld.k - 1)

C19_Witness ==
    /\ Completed
    /\ \E i \in 1..Len(ConfWindows) :
         /\ Len(ConfPanes(i)) >= 3
         /\ Has(ConfWindows[i], "layout")
         /\ Focus(ConfPanes(i)[2]) /\ ~Focus(ConfPanes(i)[3])
         /\ PaneIndex(Wins[bld.built[i]], bld.builtp[i][3]) = PaneBaseIndex + 2

(* C20, as claimed: a kill-session call is issued only by a build that     *)
(* created its session; when build is given a session by its caller and    *)
(* before_script fails, the script's error is surfaced and the session     *)
(* given is still alive.                                                   *)
C20_OnlyCreatedSessionKilled ==
    /\ CallsOf({"kill-session"}) # <<>> => bld.created
    /\ (status = "BeforeScriptError" /\ bld.arg # NoName) =>
          /\ pc = "done"
          /\ MxHasSession(server, bld.arg)

=============================================================================
